---- MODULE Spec2Model ----
(***************************************************************************)
(* The front end of the matrix toolchain: lexer::lex (lexer/src/lib.rs),   *)
(* parser::parse (parser/src/lib.rs) and the pipeline that main            *)
(* (matrix/src/main.rs) builds from them.                                   *)
(*                                                                         *)
(* A source text is a sequence of characters, each character written as a  *)
(* string.  Two characters outside ASCII are written by their code point:  *)
(* "U+00E9" (2 bytes in UTF-8) and "U+4E2D" (3 bytes), both XID_Start.     *)
(*                                                                         *)
(* usize values are 64-bit words.  The only words above 2^63 that the      *)
(* program can compute come from the subtraction in Span::new wrapping     *)
(* around when overflow checks are off; such a word w is written as its    *)
(* two's-complement reading w - 2^64, a negative integer.                  *)
(***************************************************************************)
EXTENDS Integers, Sequences, FiniteSets, TLC

VARIABLES
    source,          \* main: `code`, the text read from the program file
    overflowChecks,  \* build profile: TRUE when integer overflow panics (debug)
    mainPc,          \* main: position in main.rs:22-34
    lexer,           \* lex: Lexer { source iterator position, cursor.1 }
    tokens,          \* lex: `tokens`
    diagnostics,     \* lex: `diagnostics` (the lexer's DiagnosticSink)
    lexResult,       \* what lexer::lex returned
    ptokens,         \* parse: Parser.tokens, the tokens not yet consumed
    nodes,           \* parse: `nodes`
    pdiagnostics,    \* parse: `diagnostics` (the parser's DiagnosticSink)
    parseResult,     \* what parser::parse returned
    coalescing       \* a call self.coalesce_adjacent(other) and its result

vars == <<source, overflowChecks, mainPc, lexer, tokens, diagnostics, lexResult,
          ptokens, nodes, pdiagnostics, parseResult, coalescing>>

-----------------------------------------------------------------------------
(* Bounds of the model *)

\* longest source text drawn character by character
MaxLen == 3
\* most binary operators in a generated operator chain
MaxChain == 3
\* most prefix operators in a generated unary run
MaxUnary == 3
\* longest source text over the parser's characters
MaxParseLen == 4
\* the parser's sink is recorded up to this many diagnostics
MaxDiag == 2
\* most top-level expressions in a generated run of adjacent literals
MaxAdjacent == 3
\* longest source text over the operator characters
MaxOpLen == 3
\* most characters appended to a word of the keyword table
MaxSuffix == 1
\* longest source text over the characters of the quoted literals
MaxLitLen == 4
\* longest source text over the characters of the numbers
MaxNumLen == 4
\* longest source text with characters that belong to no token
MaxStrayLen == 3
\* largest offset of the spans that are coalesced
MaxOffset == 4
\* longest source text into which a whitespace character is inserted
MaxWsLen == 3
\* longest source text over the characters of the comparisons
MaxCmpLen == 4

-----------------------------------------------------------------------------
(* Characters and their classes *)

Punctuation == {"(", ")", "{", "}", "[", "]", ":", ";", ".", ","}
Operators == {"=", "+", "-", "*", "/", "%", "&", "|", "~", "!", "<", ">"}
Quotes == {"\"", "'"}
Letters == {"a", "b", "c", "d", "e", "f", "h", "i", "l", "n", "o", "p", "r",
            "s", "t", "u", "v", "w", "x", "F", "U+00E9", "U+4E2D"}
Digits == {"0", "1", "2", "7", "8", "9"}
Blank == {" ", "\n"}
Other == {"@", "#"}

Chars == Punctuation \cup Operators \cup Quotes \cup Letters \cup {"_"}
            \cup Digits \cup Blank \cup Other

\* UnicodeXID::is_xid_start
IsXidStart(ch) == ch \in Letters
\* UnicodeXID::is_xid_continue
IsXidContinue(ch) == ch \in Letters \cup Digits \cup {"_"}
\* char::is_numeric
IsNumeric(ch) == ch \in Digits
\* a test for the space only
IsWhitespaceNarrow(ch) == ch = " "
\* char::is_whitespace
IsWhitespace(ch) == ch \in Blank
\* char::is_ascii_octdigit
IsAsciiOctdigit(ch) == ch \in {"0", "1", "2", "7"}
\* char::is_ascii_hexdigit
IsAsciiHexdigit(ch) == ch \in Digits \cup {"a", "b", "c", "d", "e", "f", "F"}

\* char::len_utf8
LenUtf8(ch) == IF ch = "U+00E9" THEN 2 ELSE IF ch = "U+4E2D" THEN 3 ELSE 1

RECURSIVE StrLen(_)
\* String::len: the length of the text in bytes
StrLen(s) == IF s = <<>> THEN 0 ELSE LenUtf8(Head(s)) + StrLen(Tail(s))

-----------------------------------------------------------------------------
(* Token model (lexer/src/token.rs) and spans (span/src/lib.rs) *)

\* a TokenKind variant without payload
Kind(tag) == [tag |-> tag, sub |-> "-", arg |-> "-"]
IdentNonReserved == [tag |-> "Ident", sub |-> "NonReserved", arg |-> "-"]
IdentKeyword(kw) == [tag |-> "Ident", sub |-> "Keyword", arg |-> kw]
LiteralOf(lit) == [tag |-> "Literal", sub |-> lit, arg |-> "-"]
LiteralInteger(base) == [tag |-> "Literal", sub |-> "Integer", arg |-> base]
EoF == Kind("EoF")

KEYWORDS ==
    { <<<<"p", "r", "o", "c">>, IdentKeyword("Proc")>>,
      <<<<"l", "e", "t">>, IdentKeyword("Let")>>,
      <<<<"v", "o", "i", "d">>, IdentKeyword("Void")>>,
      <<<<"i", "n", "t">>, IdentKeyword("Int")>>,
      <<<<"r", "e", "t">>, IdentKeyword("Ret")>>,
      <<<<"f", "l", "o", "a", "t">>, IdentKeyword("Float")>>,
      <<<<"i", "f">>, IdentKeyword("If")>>,
      <<<<"e", "l", "i", "f">>, IdentKeyword("Elif")>>,
      <<<<"e", "l", "s", "e">>, IdentKeyword("Else")>>,
      <<<<"f", "o", "r">>, IdentKeyword("For")>>,
      <<<<"w", "h", "i", "l", "e">>, IdentKeyword("While")>>,
      <<<<"d", "o">>, IdentKeyword("Do")>>,
      <<<<"b", "o", "o", "l">>, IdentKeyword("Bool")>>,
      <<<<"s", "t", "r">>, IdentKeyword("Str")>>,
      <<<<"t", "r", "u", "e">>, LiteralOf("Boolean")>>,
      <<<<"f", "a", "l", "s", "e">>, LiteralOf("Boolean")>> }

\* Span::new(len, pos): start = pos - len
SpanNew(len, pos) == [start |-> pos - len, end |-> pos]

\* `pos - len` leaves the unsigned range
SubOverflows(len, pos) == len > pos

\* std::cmp::min, std::cmp::max
Min(a, b) == IF a <= b THEN a ELSE b
Max(a, b) == IF a >= b THEN a ELSE b

\* CoalesceAdjacent for two spans that touch: from the start of the first
\* to the end of the second
CoalesceAdjacentTouching(self, other) ==
    [start |-> self.start, end |-> other.end]

\* Span::coalesce_adjacent
CoalesceAdjacent(self, other) ==
    [start |-> Min(self.start, other.start), end |-> Max(self.end, other.end)]

-----------------------------------------------------------------------------
(* Lexer (lexer/src/lib.rs).  A lexer state lx is [pos, cursor]: pos is    *)
(* the number of characters the iterator has yielded, cursor is cursor.1.  *)

NoChar == "<none>"
NoItem == [none |-> TRUE]

LexerNew == [pos |-> 0, cursor |-> 1]

Peek(lx) == IF lx.pos < Len(source) THEN source[lx.pos + 1] ELSE NoChar

AtEnd(lx) == Peek(lx) = NoChar

\* Advance moving the cursor only when a character is left
AdvanceIfSome(lx) ==
    [pos |-> IF lx.pos < Len(source) THEN lx.pos + 1 ELSE lx.pos,
     cursor |-> IF lx.pos < Len(source) THEN lx.cursor + 1 ELSE lx.cursor]

\* cursor.1 += 1 whether or not a character is left
Advance(lx) ==
    [pos |-> IF lx.pos < Len(source) THEN lx.pos + 1 ELSE lx.pos,
     cursor |-> lx.cursor + 1]

\* what a lexing function hands back: Ok(token), Err(diagnostic) or a panic,
\* with the lexer state it leaves
Outcome(res, item, lx) == [res |-> res, item |-> item, lx |-> lx]

\* span of an item that Span::new has not stamped yet
NoSpan == [start |-> 0, end |-> 0]
Token(kind, span) == [kind |-> kind, span |-> span]
Diagnostic(diag, ch, span) == [diag |-> diag, ch |-> ch, span |-> span]

\* Token or diagnostic stamped with Span::new(len, pos): the subtraction
\* panics under overflow checks and wraps without them
Stamped(res, lx, len, pos, item) ==
    IF SubOverflows(len, pos) /\ overflowChecks
    THEN Outcome("panic", NoItem, lx)
    ELSE Outcome(res, [item EXCEPT !.span = SpanNew(len, pos)], lx)

CreateToken(lx, kind, len) ==
    LET make == Token(kind, NoSpan)
    IN  Stamped("ok", lx, len, lx.cursor, make)

RECURSIVE AdvanceWhile(_, _)
\* while !self.at_end() && <peek in set> { self.advance_with_callback(|| len += 1) }
AdvanceWhile(lx, set) ==
    IF ~AtEnd(lx) /\ Peek(lx) \in set
    THEN AdvanceWhile(Advance(lx), set)
    ELSE lx

\* the number of `len += 1` callbacks between two lexer states
Advanced(lx, lx2) == lx2.cursor - lx.cursor

NextIs(lx, next) == Peek(lx) = next

\* LexPotentiallyLongerOperator without the lookahead
LexPotentiallyLongerOperatorShort(lx, checkNext, ifNext, fallback) ==
    CreateToken(lx, fallback, 1)

LexPotentiallyLongerOperator(lx, checkNext, ifNext, fallback) ==
    IF NextIs(lx, checkNext)
    THEN CreateToken(Advance(lx), ifNext, 2)
    ELSE CreateToken(lx, fallback, 1)

\* the text with its upper-case letters replaced by lower-case ones
ToLowercase(ident) ==
    [i \in 1..Len(ident) |-> IF ident[i] = "F" THEN "f" ELSE ident[i]]

\* KeywordLookup on a table that ignores case
KeywordLookupIgnoreCase(ident) ==
    IF \E e \in KEYWORDS : e[1] = ToLowercase(ident)
    THEN (CHOOSE e \in KEYWORDS : e[1] = ToLowercase(ident))[2]
    ELSE IdentNonReserved

KeywordLookup(ident) ==
    IF \E e \in KEYWORDS : e[1] = ident
    THEN (CHOOSE e \in KEYWORDS : e[1] = ident)[2]
    ELSE IdentNonReserved

\* first_char is the character just consumed, source[lx.pos]
LexIdent(lx) ==
    LET lx2 == AdvanceWhile(lx, {ch \in Chars : IsXidContinue(ch)})
        ident == SubSeq(source, lx.pos, lx2.pos)
    IN  CreateToken(lx2, KeywordLookup(ident), StrLen(ident))

LexCharLiteral(lx) ==
    IF AtEnd(lx)
    THEN LET make == Diagnostic("UnterminatedCharacterLiteral", NoChar, NoSpan)
         IN  Stamped("err", lx, 1, lx.cursor, make)
    ELSE LET lx2 == AdvanceWhile(lx, Chars \ {"'"})
             len == 1 + Advanced(lx, lx2)
             make == Diagnostic("EmptyCharacterLiteral", NoChar, NoSpan)
         IN  IF len = 2
             THEN Stamped("err", lx2, len + 1, lx2.cursor - 1, make)
             ELSE CreateToken(lx2, LiteralOf("Character"), len)

\* LexStringLiteral leaving the closing quote unread
LexStringLiteralOpenEnded(lx) ==
    LET lx2 == AdvanceWhile(lx, Chars \ {"\""})
        len == 1 + Advanced(lx, lx2)
        make == Diagnostic("UnterminatedStringLiteral", NoChar, NoSpan)
    IN  IF ~NextIs(lx2, "\"")
        THEN Stamped("err", lx2, len, lx2.cursor, make)
        ELSE CreateToken(lx2, LiteralOf("String"), len)

LexStringLiteral(lx) ==
    LET lx2 == AdvanceWhile(lx, Chars \ {"\""})
        len == 1 + Advanced(lx, lx2)
        make == Diagnostic("UnterminatedStringLiteral", NoChar, NoSpan)
    IN  IF ~NextIs(lx2, "\"")
        THEN Stamped("err", lx2, len, lx2.cursor, make)
        ELSE CreateToken(Advance(lx2), LiteralOf("String"), len + 1)

\* LexNumericalLiteral taking a base prefix after any first digit
LexNumericalLiteralAnyFirst(lx) ==
    IF Peek(lx) \in {"b", "o", "x"}
    THEN LET base == CASE Peek(lx) = "b" -> "Binary"
                       [] Peek(lx) = "o" -> "Octal"
                       [] Peek(lx) = "x" -> "Hexadecimal"
             digits == CASE base = "Binary" -> {"0", "1", "_"}
                         [] base = "Octal" ->
                                {ch \in Chars : IsAsciiOctdigit(ch)} \cup {"_"}
                         [] base = "Hexadecimal" ->
                                {ch \in Chars : IsAsciiHexdigit(ch)} \cup {"_"}
             lx2 == AdvanceWhile(Advance(lx), digits)
         IN  CreateToken(lx2, LiteralInteger(base), 1 + Advanced(lx, lx2))
    ELSE LET lx2 == AdvanceWhile(lx, {ch \in Chars : IsNumeric(ch)})
             lx3 == AdvanceWhile(Advance(lx2), {ch \in Chars : IsNumeric(ch)})
         IN  IF Peek(lx2) = "."
             THEN CreateToken(lx3, LiteralOf("Float"), 1 + Advanced(lx, lx3))
             ELSE CreateToken(lx2, LiteralInteger("Decimal"), 1 + Advanced(lx, lx2))

\* first_digit is the character just consumed, source[lx.pos]
LexNumericalLiteral(lx) ==
    IF source[lx.pos] = "0" /\ Peek(lx) \in {"b", "o", "x"}
    THEN LET base == CASE Peek(lx) = "b" -> "Binary"
                       [] Peek(lx) = "o" -> "Octal"
                       [] Peek(lx) = "x" -> "Hexadecimal"
             digits == CASE base = "Binary" -> {"0", "1", "_"}
                         [] base = "Octal" ->
                                {ch \in Chars : IsAsciiOctdigit(ch)} \cup {"_"}
                         [] base = "Hexadecimal" ->
                                {ch \in Chars : IsAsciiHexdigit(ch)} \cup {"_"}
             lx2 == AdvanceWhile(Advance(lx), digits)
         IN  CreateToken(lx2, LiteralInteger(base), 1 + Advanced(lx, lx2))
    ELSE LET lx2 == AdvanceWhile(lx, {ch \in Chars : IsNumeric(ch)})
             lx3 == AdvanceWhile(Advance(lx2), {ch \in Chars : IsNumeric(ch)})
         IN  IF Peek(lx2) = "."
             THEN CreateToken(lx3, LiteralOf("Float"), 1 + Advanced(lx, lx3))
             ELSE CreateToken(lx2, LiteralInteger("Decimal"), 1 + Advanced(lx, lx2))

RECURSIVE LexToken(_)
\* lx0 is the lexer state when lex_token is called
LexToken(lx0) ==
    LET ch == Peek(lx0)
        lx == Advance(lx0)
        unexpected == Diagnostic("UnexpectedCharacter", ch, NoSpan)
    IN  CASE ch = NoChar -> CreateToken(lx, EoF, 0)
          [] ch = "(" -> CreateToken(lx, Kind("OpenParen"), 1)
          [] ch = ")" -> CreateToken(lx, Kind("ClosingParen"), 1)
          [] ch = "{" -> CreateToken(lx, Kind("OpenCurly"), 1)
          [] ch = "}" -> CreateToken(lx, Kind("ClosingCurly"), 1)
          [] ch = "[" -> CreateToken(lx, Kind("OpenSquare"), 1)
          [] ch = "]" -> CreateToken(lx, Kind("ClosingSquare"), 1)
          [] ch = ":" -> CreateToken(lx, Kind("Colon"), 1)
          [] ch = ";" -> CreateToken(lx, Kind("Semicolon"), 1)
          [] ch = "." -> CreateToken(lx, Kind("Period"), 1)
          [] ch = "," -> CreateToken(lx, Kind("Comma"), 1)
          [] ch = "=" -> LexPotentiallyLongerOperator(lx, "=", Kind("EqualEqual"), Kind("Equal"))
          [] ch = "+" -> LexPotentiallyLongerOperator(lx, "=", Kind("PlusEqual"), Kind("Plus"))
          [] ch = "-" -> LexPotentiallyLongerOperator(lx, "=", Kind("MinusEqual"), Kind("Minus"))
          [] ch = "*" -> LexPotentiallyLongerOperator(lx, "=", Kind("StarEqual"), Kind("Star"))
          [] ch = "/" -> LexPotentiallyLongerOperator(lx, "=", Kind("SlashEqual"), Kind("Slash"))
          [] ch = "%" -> LexPotentiallyLongerOperator(lx, "=", Kind("PercentEqual"), Kind("Percent"))
          [] ch = "&" -> CreateToken(lx, Kind("Ampersand"), 1)
          [] ch = "|" -> CreateToken(lx, Kind("Bar"), 1)
          [] ch = "~" -> CreateToken(lx, Kind("Tilde"), 1)
          [] ch = "!" -> LexPotentiallyLongerOperator(lx, "=", Kind("BangEqual"), Kind("Bang"))
          [] ch = "<" -> CreateToken(lx, Kind("Lt"), 1)
          [] ch = ">" -> CreateToken(lx, Kind("Gt"), 1)
          [] ch = "\"" -> LexStringLiteral(lx)
          [] ch = "'" -> LexCharLiteral(lx)
          [] OTHER ->
                IF IsXidStart(ch) \/ ch = "_" THEN LexIdent(lx)
                ELSE IF IsNumeric(ch) THEN LexNumericalLiteral(lx)
                ELSE IF IsWhitespace(ch) THEN LexToken(lx)
                ELSE Stamped("err", lx, 1, lx.cursor - 1, unexpected)

-----------------------------------------------------------------------------
(* AST model (parser/src/ast.rs) *)

\* Into<LiteralKind> for token::LiteralKind: the base of an integer is dropped
IntoLiteralKind(kind) == kind.sub

\* IntoUnaryOpKind with the arms of Bang and Tilde exchanged
IntoUnaryOpKindSwapped(kind) ==
    CASE kind.tag = "Minus" -> "Neg"
      [] kind.tag = "Bang" -> "BwNot"
      [] kind.tag = "Tilde" -> "LogNot"

\* Into<UnaryOpKind> for token::TokenKind
IntoUnaryOpKind(kind) ==
    CASE kind.tag = "Minus" -> "Neg"
      [] kind.tag = "Bang" -> "LogNot"
      [] kind.tag = "Tilde" -> "BwNot"

\* Into<BinaryOpKind> for token::TokenKind: every name is kept but these
IntoBinaryOpKind(kind) ==
    CASE kind.tag = "Star" -> "Mul"
      [] kind.tag = "StarEqual" -> "MulEqual"
      [] kind.tag = "Slash" -> "Div"
      [] kind.tag = "SlashEqual" -> "DivEqual"
      [] kind.tag = "Percent" -> "Mod"
      [] kind.tag = "PercentEqual" -> "ModEqual"
      [] kind.tag = "Ampersand" -> "BwAnd"
      [] kind.tag = "Bar" -> "BwOr"
      [] kind.tag = "BangEqual" -> "NotEqual"
      [] OTHER -> kind.tag

Literal(lit) == [node |-> "Literal", lit |-> lit]
Unary(operator, operand) ==
    [node |-> "Unary", operator |-> operator, operand |-> operand]
Binary(lhs, operator, rhs) ==
    [node |-> "Binary", lhs |-> lhs, operator |-> operator, rhs |-> rhs]
Grouping(inner) == [node |-> "Grouping", inner |-> inner]

\* TokenKind::is_unary_op
IsUnaryOp(kind) == kind.tag \in {"Bang", "Minus", "Tilde"}
\* TokenKind::is_comparison_op
IsComparisonOp(kind) == kind.tag \in {"Lt", "LtEqual", "Gt", "GtEqual"}
\* TokenKind::is_equality_op
IsEqualityOp(kind) == kind.tag \in {"BangEqual", "EqualEqual"}

-----------------------------------------------------------------------------
(* Parser (parser/src/lib.rs).  The parser state is the sequence of tokens *)
(* its iterator has not yielded yet.  A parsing function hands back        *)
(* Ok(expr) or Err(ParseDiagnostic::O) and the tokens it leaves.           *)

NoExpr == [node |-> "<none>"]
POk(expr, rest) == [ok |-> TRUE, expr |-> expr, rest |-> rest]
PErr(rest) == [ok |-> FALSE, expr |-> NoExpr, rest |-> rest]

\* Parser::peek is Some(token)
PeekIsSome(toks) == toks # <<>>

\* Parser::advance: the iterator yields None once it is exhausted
PAdvance(toks) == IF toks = <<>> THEN <<>> ELSE Tail(toks)

\* Parser::at_end
PAtEnd(toks) == PeekIsSome(toks) /\ Head(toks).kind = EoF

RECURSIVE ParsePrimary(_), ParseUnary(_), ParseFactor(_), ParseTerm(_),
          ParseComparison(_), ParseEquality(_), ParseExpr(_),
          FactorLoop(_), TermLoop(_), ComparisonLoop(_), EqualityLoop(_),
          FactorLoopWide(_)

\* parse_primary after `self.parse_expr()?` returned r (lib.rs:51-53): the
\* next token, whatever it is, is consumed
CloseGrouping(r) ==
    IF ~r.ok THEN r ELSE POk(Grouping(r.expr), PAdvance(r.rest))

ParsePrimary(toks) ==
    IF PeekIsSome(toks)
    THEN IF Head(toks).kind.tag = "Literal"
         THEN POk(Literal(IntoLiteralKind(Head(toks).kind)), PAdvance(toks))
         ELSE IF Head(toks).kind = Kind("OpenParen")
         THEN CloseGrouping(ParseExpr(PAdvance(toks)))
         ELSE PErr(toks)
    ELSE PErr(toks)

\* parse_unary after `self.parse_unary()?` returned r (lib.rs:66-70)
WrapUnary(kind, r) ==
    IF ~r.ok THEN r ELSE POk(Unary(IntoUnaryOpKind(kind), r.expr), r.rest)

ParseUnary(toks) ==
    IF PeekIsSome(toks) /\ IsUnaryOp(Head(toks).kind)
    THEN WrapUnary(Head(toks).kind, ParseUnary(PAdvance(toks)))
    ELSE ParsePrimary(toks)

\* the body of a while-let loop after the operand parser returned r: `?`,
\* then expr = Binary { lhs: expr, operator, rhs }
Fold(expr, kind, r) ==
    IF ~r.ok THEN r ELSE POk(Binary(expr, IntoBinaryOpKind(kind), r.expr), r.rest)

\* FactorLoop taking the operators of parse_term as well
FactorLoopWide(acc) ==
    IF ~acc.ok THEN acc
    ELSE IF PeekIsSome(acc.rest)
            /\ Head(acc.rest).kind.tag \in {"Star", "Slash", "Minus", "Plus"}
    THEN FactorLoopWide(Fold(acc.expr, Head(acc.rest).kind,
                             ParseUnary(PAdvance(acc.rest))))
    ELSE acc

\* the while-let loop of parse_factor; acc is the running result and the
\* tokens left, or the failure that `?` hands on
FactorLoop(acc) ==
    IF ~acc.ok THEN acc
    ELSE IF PeekIsSome(acc.rest) /\ Head(acc.rest).kind.tag \in {"Star", "Slash"}
    THEN FactorLoop(Fold(acc.expr, Head(acc.rest).kind,
                         ParseUnary(PAdvance(acc.rest))))
    ELSE acc

ParseFactor(toks) == FactorLoop(ParseUnary(toks))

\* TermLoop folding to the right: the rest of the chain becomes the rhs
TermLoopRight(acc) ==
    IF ~acc.ok THEN acc
    ELSE IF PeekIsSome(acc.rest) /\ Head(acc.rest).kind.tag \in {"Minus", "Plus"}
    THEN Fold(acc.expr, Head(acc.rest).kind, ParseTerm(PAdvance(acc.rest)))
    ELSE acc

TermLoop(acc) ==
    IF ~acc.ok THEN acc
    ELSE IF PeekIsSome(acc.rest) /\ Head(acc.rest).kind.tag \in {"Minus", "Plus"}
    THEN TermLoop(Fold(acc.expr, Head(acc.rest).kind,
                       ParseFactor(PAdvance(acc.rest))))
    ELSE acc

ParseTerm(toks) == TermLoop(ParseFactor(toks))

ComparisonLoop(acc) ==
    IF ~acc.ok THEN acc
    ELSE IF PeekIsSome(acc.rest) /\ IsComparisonOp(Head(acc.rest).kind)
    THEN ComparisonLoop(Fold(acc.expr, Head(acc.rest).kind,
                             ParseTerm(PAdvance(acc.rest))))
    ELSE acc

ParseComparison(toks) == ComparisonLoop(ParseTerm(toks))

EqualityLoop(acc) ==
    IF ~acc.ok THEN acc
    ELSE IF PeekIsSome(acc.rest) /\ IsEqualityOp(Head(acc.rest).kind)
    THEN EqualityLoop(Fold(acc.expr, Head(acc.rest).kind,
                           ParseComparison(PAdvance(acc.rest))))
    ELSE acc

ParseEquality(toks) == EqualityLoop(ParseComparison(toks))

ParseExpr(toks) == ParseEquality(toks)

-----------------------------------------------------------------------------
(* lexer::lex, parser::parse and main, one action per loop iteration and   *)
(* per return                                                              *)

NoResult == [tag |-> "None", value |-> <<>>]
Ok(value) == [tag |-> "Ok", value |-> value]
Err(sink) == [tag |-> "Err", value |-> sink]

\* DiagnosticSink::has_diagnostics
HasDiagnostics(sink) == sink # <<>>

\* PushDiagnostic putting the new diagnostic in front of the earlier ones
PushDiagnosticFront(sink, diagnostic) == <<diagnostic>> \o sink

\* DiagnosticSink::push_diagnostic of the lexer
PushDiagnostic(sink, diagnostic) == Append(sink, diagnostic)

\* DiagnosticSink::push_diagnostic of the parser; a sink longer than MaxDiag
\* is recorded by its first MaxDiag diagnostics
PushParseDiagnostic(sink, diagnostic) ==
    IF Len(sink) < MaxDiag THEN Append(sink, diagnostic) ELSE sink

\* LexIter with the EoF test before the push: EoF is never pushed
LexIterBreakFirst ==
    /\ mainPc = "lex"
    /\ LET r == LexToken(lexer)
       IN  /\ lexer' = r.lx
           /\ CASE r.res = "panic" ->
                     /\ mainPc' = "panicked"
                     /\ UNCHANGED <<tokens, diagnostics>>
                [] r.res = "ok" ->
                     /\ tokens' = IF r.item.kind = EoF THEN tokens
                                  ELSE Append(tokens, r.item)
                     /\ mainPc' = IF r.item.kind = EoF THEN "lex_exit" ELSE "lex"
                     /\ UNCHANGED diagnostics
                [] r.res = "err" ->
                     /\ diagnostics' = PushDiagnostic(diagnostics, r.item)
                     /\ UNCHANGED <<tokens, mainPc>>
    /\ UNCHANGED <<coalescing, source, overflowChecks, lexResult, ptokens, nodes,
                   pdiagnostics, parseResult>>

\* LexIter leaving the loop at the first diagnostic
LexIterFailFast ==
    /\ mainPc = "lex"
    /\ LET r == LexToken(lexer)
       IN  /\ lexer' = r.lx
           /\ CASE r.res = "panic" ->
                     /\ mainPc' = "panicked"
                     /\ UNCHANGED <<tokens, diagnostics>>
                [] r.res = "ok" ->
                     /\ tokens' = Append(tokens, r.item)
                     /\ mainPc' = IF r.item.kind = EoF THEN "lex_exit" ELSE "lex"
                     /\ UNCHANGED diagnostics
                [] r.res = "err" ->
                     /\ diagnostics' = PushDiagnostic(diagnostics, r.item)
                     /\ mainPc' = "lex_exit"
                     /\ UNCHANGED tokens
    /\ UNCHANGED <<coalescing, source, overflowChecks, lexResult, ptokens, nodes,
                   pdiagnostics, parseResult>>

\* one iteration of the loop of lex (lexer/src/lib.rs:312-323)
LexIter ==
    /\ mainPc = "lex"
    /\ LET r == LexToken(lexer)
       IN  /\ lexer' = r.lx
           /\ CASE r.res = "panic" ->
                     /\ mainPc' = "panicked"
                     /\ UNCHANGED <<tokens, diagnostics>>
                [] r.res = "ok" ->
                     /\ tokens' = Append(tokens, r.item)
                     /\ mainPc' = IF r.item.kind = EoF THEN "lex_exit" ELSE "lex"
                     /\ UNCHANGED diagnostics
                [] r.res = "err" ->
                     /\ diagnostics' = PushDiagnostic(diagnostics, r.item)
                     /\ UNCHANGED <<tokens, mainPc>>
    /\ UNCHANGED <<coalescing, source, overflowChecks, lexResult, ptokens, nodes,
                   pdiagnostics, parseResult>>

\* lex after its loop (lexer/src/lib.rs:325-329)
LexReturn ==
    /\ mainPc = "lex_exit"
    /\ lexResult' = IF HasDiagnostics(diagnostics) THEN Err(diagnostics)
                    ELSE Ok(tokens)
    /\ mainPc' = "lexed"
    /\ UNCHANGED <<coalescing, source, overflowChecks, lexer, tokens, diagnostics, ptokens,
                   nodes, pdiagnostics, parseResult>>

\* MainAfterLex without the `?`: the parser runs on whatever lex left
MainAfterLexUnchecked ==
    /\ mainPc = "lexed"
    /\ ptokens' = IF lexResult.tag = "Ok" THEN lexResult.value ELSE tokens
    /\ nodes' = <<>>
    /\ pdiagnostics' = <<>>
    /\ mainPc' = "parse"
    /\ UNCHANGED <<coalescing, source, overflowChecks, lexer, tokens, diagnostics, lexResult,
                   parseResult>>

\* main.rs:28-30: `?` on the result of lex, then parser::parse(tokens) up to
\* its loop (Parser::new, empty nodes and sink)
MainAfterLex ==
    /\ mainPc = "lexed"
    /\ IF lexResult.tag = "Err"
       THEN /\ mainPc' = "exit_err"
            /\ UNCHANGED <<ptokens, nodes, pdiagnostics>>
       ELSE /\ ptokens' = lexResult.value
            /\ nodes' = <<>>
            /\ pdiagnostics' = <<>>
            /\ mainPc' = "parse"
    /\ UNCHANGED <<coalescing, source, overflowChecks, lexer, tokens, diagnostics, lexResult,
                   parseResult>>

\* ParseIterWith putting each new expression in front of the earlier ones
ParseIterWithPrepend(r) ==
    /\ ptokens' = r.rest
    /\ IF r.ok
       THEN /\ nodes' = <<r.expr>> \o nodes
            /\ UNCHANGED pdiagnostics
       ELSE /\ pdiagnostics' = PushParseDiagnostic(pdiagnostics, "O")
            /\ UNCHANGED nodes

\* the match of the loop of parse on the result r of parse_expr
ParseIterWith(r) ==
    /\ ptokens' = r.rest
    /\ IF r.ok
       THEN /\ nodes' = Append(nodes, r.expr)
            /\ UNCHANGED pdiagnostics
       ELSE /\ pdiagnostics' = PushParseDiagnostic(pdiagnostics, "O")
            /\ UNCHANGED nodes

\* one iteration of the loop of parse (parser/src/lib.rs:159-164)
ParseIter ==
    /\ mainPc = "parse"
    /\ ~PAtEnd(ptokens)
    /\ ParseIterWith(ParseExpr(ptokens))
    /\ UNCHANGED <<coalescing, source, overflowChecks, mainPc, lexer, tokens, diagnostics,
                   lexResult, parseResult>>

\* parse after its loop (parser/src/lib.rs:166-170)
ParseReturn ==
    /\ mainPc = "parse"
    /\ PAtEnd(ptokens)
    /\ parseResult' = IF HasDiagnostics(pdiagnostics) THEN Err(pdiagnostics)
                      ELSE Ok(nodes)
    /\ mainPc' = "parsed"
    /\ UNCHANGED <<coalescing, source, overflowChecks, lexer, tokens, diagnostics, lexResult,
                   ptokens, nodes, pdiagnostics>>

\* main.rs:30-33: `?` on the result of parse, then Ok(())
MainAfterParse ==
    /\ mainPc = "parsed"
    /\ mainPc' = IF parseResult.tag = "Err" THEN "exit_err" ELSE "exit_ok"
    /\ UNCHANGED <<coalescing, source, overflowChecks, lexer, tokens, diagnostics, lexResult,
                   ptokens, nodes, pdiagnostics, parseResult>>

Next ==
    \/ LexIter
    \/ LexReturn
    \/ MainAfterLex
    \/ ParseIter
    \/ ParseReturn
    \/ MainAfterParse

-----------------------------------------------------------------------------
(* Source texts *)

\* every text over `set` of at most n characters
Texts(set, n) == UNION {[1..k -> set] : k \in 0..n}

\* no call of coalesce_adjacent is under way
NoCoalescing == [self |-> NoSpan, other |-> NoSpan, result |-> NoSpan, done |-> TRUE]

\* main up to the call of lexer::lex (main.rs:23-28, lexer/src/lib.rs:308-310)
InitWith(texts) ==
    /\ source \in texts
    /\ overflowChecks \in BOOLEAN
    /\ mainPc = "lex"
    /\ lexer = LexerNew
    /\ tokens = <<>>
    /\ diagnostics = <<>>
    /\ lexResult = NoResult
    /\ ptokens = <<>>
    /\ nodes = <<>>
    /\ pdiagnostics = <<>>
    /\ parseResult = NoResult
    /\ coalescing = NoCoalescing

LexChars == {"(", ")", "+", "=", "1", "a", "U+00E9", "U+4E2D", "'", "\"", " ", "@"}

Init == InitWith(Texts(LexChars, MaxLen))

Spec == Init /\ [][Next]_vars

\* operands of the generated expressions: an Integer, a Float, a String
Operand(i) ==
    CASE i % 3 = 1 -> <<"1">>
      [] i % 3 = 2 -> <<"2", ".", "0">>
      [] OTHER -> <<"\"", "\"">>

BinarySpellings ==
    {<<"=", "=">>, <<"!", "=">>, <<"<">>, <<">">>, <<"+">>, <<"-">>, <<"*">>, <<"/">>}

UnarySpellings == {"-", "!", "~"}

RECURSIVE ChainFrom(_, _)
\* operand i, operator i, operand i + 1, ...
ChainFrom(ops, i) ==
    IF i > Len(ops) THEN Operand(i)
    ELSE Operand(i) \o ops[i] \o ChainFrom(ops, i + 1)

OperatorChains ==
    {ChainFrom(ops, 1) : ops \in UNION {[1..k -> BinarySpellings] : k \in 1..MaxChain}}

GroupedChains ==
    UNION {{<<"(">> \o Operand(1) \o o1 \o Operand(2) \o <<")">> \o o2 \o Operand(3),
            Operand(1) \o o1 \o <<"(">> \o Operand(2) \o o2 \o Operand(3) \o <<")">>}
           : <<o1, o2>> \in BinarySpellings \X BinarySpellings}

UnaryRuns ==
    {us \o p : us \in UNION {[1..k -> UnarySpellings] : k \in 1..MaxUnary},
               p \in {<<"1">>, <<"(", "1", ")">>}}

RECURSIVE AdjacentFrom(_, _)
\* operands i..n, one blank between two of them
AdjacentFrom(i, n) ==
    IF i >= n THEN Operand(i)
    ELSE Operand(i) \o <<" ">> \o AdjacentFrom(i + 1, n)

AdjacentLiterals == {AdjacentFrom(1, n) : n \in 1..MaxAdjacent}

ParseChars == {"1", "+", "*", "-", "(", ")", " "}

ParseInit ==
    InitWith(Texts(ParseChars, MaxParseLen) \cup OperatorChains \cup GroupedChains
                \cup UnaryRuns \cup AdjacentLiterals)

ParseSpec == ParseInit /\ [][Next]_vars

\* the words of the keyword table
Words == {e[1] : e \in KEYWORDS}

SuffixChars == {"s", "_", "1", "F", "U+00E9"}

\* a word with its first f in upper case
Capitalised(w) ==
    [i \in 1..Len(w) |->
        IF w[i] = "f" /\ \A j \in 1..(i - 1) : w[j] # "f" THEN "F" ELSE w[i]]

\* the words, the words in another case, the words with characters
\* appended or an underscore in front, and two words with a blank between
IdentTexts ==
    {w \o suffix : w \in Words, suffix \in Texts(SuffixChars, MaxSuffix)}
        \cup {Capitalised(w) : w \in Words}
        \cup {<<"_">> \o w : w \in Words}
        \cup {w \o <<" ">> \o v : w \in Words, v \in Words}

IdentInit == InitWith(IdentTexts)

IdentSpec == IdentInit /\ [][Next]_vars

LiteralChars == {"'", "\"", "a", "U+00E9", " "}

LiteralInit == InitWith(Texts(LiteralChars, MaxLitLen))

LiteralSpec == LiteralInit /\ [][Next]_vars

NumberChars == {"0", "1", "8", "b", "o", "x", ".", "_"}

NumberInit == InitWith(Texts(NumberChars, MaxNumLen))

NumberSpec == NumberInit /\ [][Next]_vars

StrayChars == {"@", "#", "1", "a", "=", " "}

StrayInit == InitWith(Texts(StrayChars, MaxStrayLen))

StraySpec == StrayInit /\ [][Next]_vars

\* the spans with start <= end up to MaxOffset
Spans == {sp \in [start : 0..MaxOffset, end : 0..MaxOffset] : sp.start <= sp.end}

\* a caller about to coalesce two spans
SpanInit ==
    /\ coalescing \in [self : Spans, other : Spans, result : {NoSpan}, done : {FALSE}]
    /\ source = <<>>
    /\ overflowChecks = FALSE
    /\ mainPc = "coalesce"
    /\ lexer = LexerNew
    /\ tokens = <<>>
    /\ diagnostics = <<>>
    /\ lexResult = NoResult
    /\ ptokens = <<>>
    /\ nodes = <<>>
    /\ pdiagnostics = <<>>
    /\ parseResult = NoResult

\* the call self.coalesce_adjacent(other)
CoalesceAdjacentCall ==
    /\ mainPc = "coalesce"
    /\ ~coalescing.done
    /\ coalescing' = [coalescing EXCEPT
                         !.result = CoalesceAdjacent(coalescing.self, coalescing.other),
                         !.done = TRUE]
    /\ mainPc' = "coalesced"
    /\ UNCHANGED <<source, overflowChecks, lexer, tokens, diagnostics, lexResult,
                   ptokens, nodes, pdiagnostics, parseResult>>

SpanNext == CoalesceAdjacentCall

SpanSpec == SpanInit /\ [][SpanNext]_vars

WhitespaceChars == {"1", "a", "=", ".", "@", " "}

\* text with a space inserted after its first k characters
Inserted(text, k) == SubSeq(text, 1, k) \o <<" ">> \o SubSeq(text, k + 1, Len(text))

\* a text on the first line and, on the second line, the same text with a
\* space inserted at some place
WhitespaceTexts ==
    UNION {{text \o <<"\n">> \o Inserted(text, k) : k \in 0..Len(text)} :
              text \in Texts(WhitespaceChars, MaxWsLen)}

WhitespaceInit == InitWith(WhitespaceTexts)

WhitespaceSpec == WhitespaceInit /\ [][Next]_vars

ComparisonChars == {"<", ">", "=", "!", "+", "1", " "}

ComparisonInit == InitWith(Texts(ComparisonChars, MaxCmpLen))

ComparisonSpec == ComparisonInit /\ [][Next]_vars

OperatorChars == {"=", "+", "-", "*", "/", "%", "!", "1", " "}

OperatorInit == InitWith(Texts(OperatorChars, MaxOpLen))

OperatorSpec == OperatorInit /\ [][Next]_vars

-----------------------------------------------------------------------------
(* Properties of lex and of the pipeline *)

LexReturned == lexResult.tag # "None"
ParseCalled == mainPc \in {"parse", "parsed"} \/ parseResult.tag # "None"

\* C1: for every source text lex terminates by returning: a run that has no
\* further step to take has seen lex return.
C1_LexReturns == LexReturned \/ ENABLED Next

\* C3: lex never panics and every span it computes stays in the unsigned
\* range: no Span::new(len, pos) is called with len > pos, so no token or
\* diagnostic carries a wrapped start.
C3_LexNeverPanics ==
    /\ mainPc # "panicked"
    /\ \A i \in 1..Len(tokens) :
            0 <= tokens[i].span.start /\ tokens[i].span.start <= tokens[i].span.end
    /\ \A i \in 1..Len(diagnostics) :
            /\ 0 <= diagnostics[i].span.start
            /\ diagnostics[i].span.start <= diagnostics[i].span.end

\* C4: when lex returns Ok(tokens), tokens is not empty, its last element
\* is EoF and no other element is.
C4_OkEndsInOneEoF ==
    lexResult.tag = "Ok" =>
        /\ Len(lexResult.value) >= 1
        /\ \A i \in 1..Len(lexResult.value) :
                (lexResult.value[i].kind = EoF) <=> (i = Len(lexResult.value))

C4_Witness ==
    /\ lexResult.tag = "Ok"
    /\ Len(lexResult.value) >= 3
    /\ Len(source) >= Len(lexResult.value)

RECURSIVE Raised(_)
\* the rest of the diagnostics, r being the latest result of lex_token
RaisedAfter(r) ==
    CASE r.res = "panic" -> <<>>
      [] r.res = "err" -> <<r.item>> \o Raised(r.lx)
      [] r.res = "ok" -> IF r.item.kind = EoF THEN <<>> ELSE Raised(r.lx)

\* every diagnostic that lex_token raises when it is called again and again
\* from lexer state lx until it yields EoF, in the order of the calls
Raised(lx) == RaisedAfter(LexToken(lx))

\* C5: lex is collect-all: it returns Err(sink) iff some lex_token call of
\* the pass over the whole source raised a diagnostic; the sink then holds
\* every diagnostic of the pass, in source order, and nothing else.
C5_CollectAll ==
    LexReturned =>
        /\ (lexResult.tag = "Err") <=> (Raised(LexerNew) # <<>>)
        /\ lexResult.tag = "Err" =>
              /\ lexResult.value = Raised(LexerNew)
              /\ \A i \in 1..Len(lexResult.value) :
                    /\ lexResult.value[i].diag \in
                          {"UnexpectedCharacter", "EmptyCharacterLiteral",
                           "UnterminatedCharacterLiteral",
                           "UnterminatedStringLiteral"}
                    /\ \A j \in 1..(i - 1) :
                          lexResult.value[j].span.end < lexResult.value[i].span.end

C5_Witness ==
    /\ lexResult.tag = "Err"
    /\ Len(lexResult.value) >= 2
    /\ tokens # <<>>
    /\ lexResult.value[1].diag # lexResult.value[2].diag

\* C6: parse is called only after lex returned Ok, it is handed exactly the
\* tokens lex returned, and it is never called when lex returned Err.
C6_FailFastAcrossPhases ==
    /\ ParseCalled => lexResult.tag = "Ok"
    /\ lexResult.tag # "Ok" =>
          /\ ~ParseCalled
          /\ ptokens = <<>> /\ nodes = <<>> /\ pdiagnostics = <<>>
    /\ (mainPc = "parse" /\ nodes = <<>> /\ pdiagnostics = <<>>) =>
          ptokens = lexResult.value

C6_WitnessErr == mainPc = "exit_err" /\ lexResult.tag = "Err"

C6_Witness ==
    /\ mainPc = "parse" /\ nodes = <<>> /\ pdiagnostics = <<>>
    /\ Len(ptokens) >= 3

-----------------------------------------------------------------------------
(* Properties of parse *)

ParseReturned == parseResult.tag # "None"

\* C2: on every token sequence that lex returned, parse terminates.  What
\* the loop of parse does next is decided by the tokens left alone, and
\* tokens are only ever taken away, so the loop ends exactly when no pass
\* that stays in the loop leaves the tokens as they were.
C2_ParseTerminates ==
    [][(mainPc = "parse" /\ mainPc' = "parse") => ptokens' # ptokens]_vars

\* the tags of the tokens that lex returned
Tags == [i \in 1..Len(lexResult.value) |-> lexResult.value[i].kind.tag]
\* the leaf that the literal token i is to become
LitAt(i) == Literal(lexResult.value[i].kind.sub)

\* binding strength of the binary operators, from the weakest level up
LevelOf(tag) ==
    CASE tag \in {"EqualEqual", "BangEqual"} -> 1
      [] tag \in {"Lt", "LtEqual", "Gt", "GtEqual"} -> 2
      [] tag \in {"Plus", "Minus"} -> 3
      [] tag \in {"Star", "Slash"} -> 4
      [] OTHER -> 0

\* the operator of the tree for an operator token
BinaryOpOf(tag) ==
    CASE tag = "Star" -> "Mul"
      [] tag = "Slash" -> "Div"
      [] tag = "BangEqual" -> "NotEqual"
      [] OTHER -> tag

UnaryOpOf(tag) ==
    CASE tag = "Minus" -> "Neg"
      [] tag = "Bang" -> "LogNot"
      [] tag = "Tilde" -> "BwNot"

\* parse has been through its loop at least once
FirstExprDone ==
    /\ lexResult.tag = "Ok"
    /\ ParseCalled \/ mainPc \in {"exit_ok", "exit_err"}
    /\ nodes # <<>> \/ pdiagnostics # <<>>

\* the whole token sequence was parsed to the one expression `tree`
ParsedTo(tree) ==
    /\ nodes = <<tree>>
    /\ pdiagnostics = <<>>
    /\ PAtEnd(ptokens)
    /\ ParseReturned => parseResult = Ok(<<tree>>)

\* tokens i, i + 1, i + 2 are: literal, binary operator, literal
IsBinaryAt(t, i) ==
    t[i] = "Literal" /\ LevelOf(t[i + 1]) > 0 /\ t[i + 2] = "Literal"

\* C7: precedence: of two binary operators from different levels the one of
\* the higher level (equality < comparison < term < factor) binds its
\* operands first, whichever comes first in the source; a parenthesised
\* operand is a Grouping whatever the operators are; a prefix operator binds
\* tighter than every binary operator.
C7_Precedence ==
    LET t == Tags
    IN  FirstExprDone =>
          /\ (Len(t) = 6 /\ IsBinaryAt(t, 1) /\ IsBinaryAt(t, 3)
                /\ LevelOf(t[2]) < LevelOf(t[4])) =>
                ParsedTo(Binary(LitAt(1), BinaryOpOf(t[2]),
                                Binary(LitAt(3), BinaryOpOf(t[4]), LitAt(5))))
          /\ (Len(t) = 6 /\ IsBinaryAt(t, 1) /\ IsBinaryAt(t, 3)
                /\ LevelOf(t[2]) > LevelOf(t[4])) =>
                ParsedTo(Binary(Binary(LitAt(1), BinaryOpOf(t[2]), LitAt(3)),
                                BinaryOpOf(t[4]), LitAt(5)))
          /\ (Len(t) = 8 /\ t[1] = "OpenParen" /\ IsBinaryAt(t, 2)
                /\ t[5] = "ClosingParen" /\ LevelOf(t[6]) > 0 /\ t[7] = "Literal") =>
                ParsedTo(Binary(Grouping(Binary(LitAt(2), BinaryOpOf(t[3]), LitAt(4))),
                                BinaryOpOf(t[6]), LitAt(7)))
          /\ (Len(t) = 8 /\ t[1] = "Literal" /\ LevelOf(t[2]) > 0
                /\ t[3] = "OpenParen" /\ IsBinaryAt(t, 4) /\ t[7] = "ClosingParen") =>
                ParsedTo(Binary(LitAt(1), BinaryOpOf(t[2]),
                                Grouping(Binary(LitAt(4), BinaryOpOf(t[5]), LitAt(6)))))
          /\ (Len(t) = 5 /\ t[1] \in {"Minus", "Bang", "Tilde"} /\ IsBinaryAt(t, 2)) =>
                ParsedTo(Binary(Unary(UnaryOpOf(t[1]), LitAt(2)),
                                BinaryOpOf(t[3]), LitAt(4)))

\* 'a + b * c' and 'a * b + c' have been parsed
C7_Witness ==
    /\ ParseReturned
    /\ Len(Tags) = 6 /\ IsBinaryAt(Tags, 1) /\ IsBinaryAt(Tags, 3)
    /\ Tags[2] = "Plus" /\ Tags[4] = "Star"
    /\ lexResult.value[1].kind # lexResult.value[3].kind

C7_WitnessGrouped ==
    /\ ParseReturned
    /\ Len(Tags) = 8 /\ Tags[1] = "OpenParen" /\ IsBinaryAt(Tags, 2)
    /\ Tags[3] = "Plus" /\ Tags[6] = "Star"

C7_WitnessUnary ==
    /\ ParseReturned
    /\ Len(Tags) = 5 /\ Tags[1] = "Minus" /\ IsBinaryAt(Tags, 2) /\ Tags[3] = "Star"

\* the tokens are an operand and n times (operator of one level, operand)
IsChain(t, n) ==
    /\ Len(t) = 2 * n + 2
    /\ t[1] = "Literal"
    /\ \A i \in 1..n :
          /\ t[2 * i + 1] = "Literal"
          /\ LevelOf(t[2 * i]) > 0
          /\ LevelOf(t[2 * i]) = LevelOf(t[2])

RECURSIVE LeftTree(_, _)
\* the left-leaning tree of the first n operators of a chain
LeftTree(t, n) ==
    IF n = 0 THEN LitAt(1)
    ELSE Binary(LeftTree(t, n - 1), BinaryOpOf(t[2 * n]), LitAt(2 * n + 1))

\* C8: left-associativity: a chain of n operators of one level parses to the
\* left-leaning tree of depth n: Binary(op_n, Binary(op_n-1, ...), last).
C8_LeftAssociative ==
    FirstExprDone =>
        \A n \in 1..((Len(Tags) - 2) \div 2) :
            IsChain(Tags, n) => ParsedTo(LeftTree(Tags, n))

\* '1 - 2.0 + ""' has been parsed: two operators of one level that differ
C8_Witness ==
    /\ ParseReturned
    /\ Len(Tags) >= 6
    /\ IsChain(Tags, (Len(Tags) - 2) \div 2)
    /\ Tags[2] # Tags[4]
    /\ nodes[1].lhs.node = "Binary"

\* the tokens are n prefix operators and then `rest`
IsUnaryRun(t, n, rest) ==
    /\ Len(t) = n + Len(rest)
    /\ \A i \in 1..n : t[i] \in {"Minus", "Bang", "Tilde"}
    /\ \A i \in 1..Len(rest) : t[n + i] = rest[i]

RECURSIVE NestUnary(_, _, _)
\* the prefix operators i..n of t around `inner`, the first one outermost
NestUnary(t, i, inner) ==
    IF i > Len(t) \/ t[i] \notin {"Minus", "Bang", "Tilde"} THEN inner
    ELSE Unary(UnaryOpOf(t[i]), NestUnary(t, i + 1, inner))

\* C9: a run of n prefix operators and a primary parses to n nested Unary
\* nodes in source order, - as Neg, ! as LogNot, ~ as BwNot.
C9_UnaryRightRecursion ==
    FirstExprDone =>
        \A n \in 1..Len(Tags) :
            /\ IsUnaryRun(Tags, n, <<"Literal", "EoF">>) =>
                  ParsedTo(NestUnary(Tags, 1, LitAt(n + 1)))
            /\ IsUnaryRun(Tags, n, <<"OpenParen", "Literal", "ClosingParen", "EoF">>) =>
                  ParsedTo(NestUnary(Tags, 1, Grouping(LitAt(n + 2))))

\* a run of at least two different prefix operators has been parsed
C9_Witness ==
    /\ ParseReturned
    /\ \E n \in 2..Len(Tags) :
          /\ IsUnaryRun(Tags, n, <<"Literal", "EoF">>)
          /\ Tags[1] # Tags[2]
          /\ Tags[2] = "Bang"

RECURSIVE GroupingCount(_)
\* the number of Grouping nodes of a tree
GroupingCount(expr) ==
    CASE expr.node = "Grouping" -> 1 + GroupingCount(expr.inner)
      [] expr.node = "Unary" -> GroupingCount(expr.operand)
      [] expr.node = "Binary" -> GroupingCount(expr.lhs) + GroupingCount(expr.rhs)
      [] OTHER -> 0

RECURSIVE GroupingTotal(_)
GroupingTotal(exprs) ==
    IF exprs = <<>> THEN 0
    ELSE GroupingCount(Head(exprs)) + GroupingTotal(Tail(exprs))

\* C10: a Grouping is produced only for '(' expr ')': every Grouping of the
\* result has consumed a ClosingParen of its own, and when '(' literal is
\* followed by a token that is neither an operator nor ')' the expression
\* fails and that token is left in the stream.
C10_GroupingNeedsClosingParen ==
    /\ parseResult.tag = "Ok" =>
          GroupingTotal(parseResult.value)
             <= Cardinality({i \in 1..Len(Tags) : Tags[i] = "ClosingParen"})
    /\ (FirstExprDone /\ Len(Tags) >= 3 /\ Tags[1] = "OpenParen"
          /\ Tags[2] = "Literal" /\ LevelOf(Tags[3]) = 0
          /\ Tags[3] # "ClosingParen") =>
          /\ nodes = <<>>
          /\ Len(ptokens) >= Len(Tags) - 2

RECURSIVE NodesOf(_)
\* the expressions of the rest of the pass, r being the latest result of
\* parse_expr
NodesAfter(r) == IF r.ok THEN <<r.expr>> \o NodesOf(r.rest) ELSE NodesOf(r.rest)

\* the expressions that parse_expr yields when it is called again and again
\* on toks until the cursor is at EoF, in the order of the calls
NodesOf(toks) == IF PAtEnd(toks) THEN <<>> ELSE NodesAfter(ParseExpr(toks))

RECURSIVE FailedOf(_)
FailedAfter(r) == (IF r.ok THEN 0 ELSE 1) + FailedOf(r.rest)

\* the number of those calls that failed
FailedOf(toks) == IF PAtEnd(toks) THEN 0 ELSE FailedAfter(ParseExpr(toks))

\* the tokens that lex returned are n literals and EoF
IsLiteralRun(t, n) ==
    Len(t) = n + 1 /\ \A i \in 1..n : t[i] = "Literal"

\* C11: when parse returns, it returns Ok(nodes) iff no parse_expr call of
\* the pass failed, nodes holding one tree per top-level expression in
\* source order (n adjacent literals give n Literal nodes in order);
\* otherwise it returns Err with a sink of one diagnostic per failed call,
\* and no expression list.
C11_ParseDriver ==
    ParseReturned =>
        /\ (parseResult.tag = "Ok") <=> (FailedOf(lexResult.value) = 0)
        /\ parseResult.tag = "Ok" =>
              /\ parseResult.value = NodesOf(lexResult.value)
              /\ \A n \in 1..Len(Tags) :
                    IsLiteralRun(Tags, n) =>
                        parseResult.value = [i \in 1..n |-> LitAt(i)]
        /\ parseResult.tag = "Err" =>
              /\ Len(parseResult.value) = FailedOf(lexResult.value)
              /\ \A i \in 1..Len(parseResult.value) : parseResult.value[i] = "O"

\* three adjacent literals of three kinds have been parsed
C11_Witness ==
    /\ parseResult.tag = "Ok"
    /\ IsLiteralRun(Tags, 3)
    /\ Len(parseResult.value) = 3
    /\ parseResult.value[1] # parseResult.value[2]
    /\ parseResult.value[2] # parseResult.value[3]

\* parse has returned Err after an expression that parsed and one that failed
C11_WitnessErr ==
    /\ parseResult.tag = "Err"
    /\ nodes # <<>>

-----------------------------------------------------------------------------
(* Properties of the lexemes *)

RECURSIVE NextLexeme(_)
\* the index in source of the first character at or after index p that is
\* not whitespace, Len(source) + 1 when there is none
NextLexeme(p) ==
    IF p <= Len(source) /\ IsWhitespace(source[p]) THEN NextLexeme(p + 1) ELSE p

\* the character at index p, NoChar beyond the end
CharAt(p) == IF p <= Len(source) THEN source[p] ELSE NoChar

\* the span of the n characters from index p on
Covers(span, p, n) == span = [start |-> p, end |-> p + n]

\* this step is a call of lex_token that pushes one token of `kind` for the
\* n characters from index p on and leaves the character after them unread
Emits(kind, p, n) ==
    /\ mainPc' # "panicked"
    /\ diagnostics' = diagnostics
    /\ Len(tokens') = Len(tokens) + 1
    /\ SubSeq(tokens', 1, Len(tokens)) = tokens
    /\ tokens'[Len(tokens')].kind = kind
    /\ Covers(tokens'[Len(tokens')].span, p, n)
    /\ lexer'.pos = p + n - 1

BaseOf(ch) ==
    CASE ch = "=" -> Kind("Equal")
      [] ch = "+" -> Kind("Plus")
      [] ch = "-" -> Kind("Minus")
      [] ch = "*" -> Kind("Star")
      [] ch = "/" -> Kind("Slash")
      [] ch = "%" -> Kind("Percent")
      [] ch = "!" -> Kind("Bang")

CompoundOf(ch) ==
    CASE ch = "=" -> Kind("EqualEqual")
      [] ch = "+" -> Kind("PlusEqual")
      [] ch = "-" -> Kind("MinusEqual")
      [] ch = "*" -> Kind("StarEqual")
      [] ch = "/" -> Kind("SlashEqual")
      [] ch = "%" -> Kind("PercentEqual")
      [] ch = "!" -> Kind("BangEqual")

\* C12: maximal munch: when lex_token meets one of = + - * / % ! and the
\* next character is '=', it emits the one compound token of length 2 and
\* consumes both characters; when the next character is anything else, or
\* the input ends, it emits the base token of length 1 and leaves the next
\* character unread.
C12_MaximalMunch ==
    [][LET p == NextLexeme(lexer.pos + 1)
       IN  (mainPc = "lex" /\ CharAt(p) \in {"=", "+", "-", "*", "/", "%", "!"}) =>
              IF CharAt(p + 1) = "="
              THEN Emits(CompoundOf(CharAt(p)), p, 2)
              ELSE Emits(BaseOf(CharAt(p)), p, 1)]_vars

\* '+==' has been lexed to PlusEqual, Equal
C12_Witness ==
    /\ lexResult.tag = "Ok"
    /\ Len(tokens) = 3
    /\ tokens[1].kind = Kind("PlusEqual")
    /\ tokens[2].kind = Kind("Equal")

RECURSIVE IdentEnd(_)
\* the index of the last character of the run of identifier characters that
\* has the character at index p in it
IdentEnd(p) ==
    IF p < Len(source) /\ IsXidContinue(source[p + 1]) THEN IdentEnd(p + 1) ELSE p

\* this step is a call of lex_token that pushes one token of `kind` and no
\* diagnostic for the characters p..e
EmitsOne(kind, p, e) ==
    /\ mainPc' # "panicked"
    /\ diagnostics' = diagnostics
    /\ Len(tokens') = Len(tokens) + 1
    /\ SubSeq(tokens', 1, Len(tokens)) = tokens
    /\ tokens'[Len(tokens')].kind = kind
    /\ lexer'.pos = e

\* the keywords by their spelling
KeywordOf(w) ==
    CASE w = <<"p", "r", "o", "c">> -> "Proc"
      [] w = <<"l", "e", "t">> -> "Let"
      [] w = <<"v", "o", "i", "d">> -> "Void"
      [] w = <<"i", "n", "t">> -> "Int"
      [] w = <<"r", "e", "t">> -> "Ret"
      [] w = <<"f", "l", "o", "a", "t">> -> "Float"
      [] w = <<"i", "f">> -> "If"
      [] w = <<"e", "l", "i", "f">> -> "Elif"
      [] w = <<"e", "l", "s", "e">> -> "Else"
      [] w = <<"f", "o", "r">> -> "For"
      [] w = <<"w", "h", "i", "l", "e">> -> "While"
      [] w = <<"d", "o">> -> "Do"
      [] w = <<"b", "o", "o", "l">> -> "Bool"
      [] w = <<"s", "t", "r">> -> "Str"
      [] OTHER -> "-"

BooleanWords == {<<"t", "r", "u", "e">>, <<"f", "a", "l", "s", "e">>}

\* lex_token is about to lex the identifier-shaped lexeme at index p
AtIdent(p) == mainPc = "lex" /\ (IsXidStart(CharAt(p)) \/ CharAt(p) = "_")

C13_WitnessCase ==
    /\ lexResult.tag = "Ok"
    /\ source = <<"F", "o", "r">>
    /\ tokens[1].kind = IdentNonReserved

RECURSIVE Closing(_, _)
\* the index of the first character `quote` at or after index p, 0 when
\* there is none
Closing(quote, p) ==
    IF p > Len(source) THEN 0
    ELSE IF source[p] = quote THEN p
    ELSE Closing(quote, p + 1)

\* this step is a call of lex_token that pushes one diagnostic of variant
\* `diag` and no token
Raises(diag) ==
    /\ mainPc' # "panicked"
    /\ tokens' = tokens
    /\ Len(diagnostics') = Len(diagnostics) + 1
    /\ SubSeq(diagnostics', 1, Len(diagnostics)) = diagnostics
    /\ diagnostics'[Len(diagnostics')].diag = diag

\* lex_token is about to lex the lexeme that starts with `quote` at index p
AtQuote(quote, p) == mainPc = "lex" /\ CharAt(p) = quote

\* C14: a character literal with one character between the quotes lexes to
\* one Literal(Character) token whose span covers the three characters; the
\* closing quote is consumed and no diagnostic is produced.
C14_CharLiteralOneChar ==
    [][LET p == NextLexeme(lexer.pos + 1)
       IN  (AtQuote("'", p) /\ Closing("'", p + 1) = p + 2) =>
              Emits(LiteralOf("Character"), p, 3)]_vars

\* C15: a character literal with nothing between its quotes raises
\* EmptyCharacterLiteral and yields no Character token.
C15_EmptyCharLiteral ==
    [][LET p == NextLexeme(lexer.pos + 1)
       IN  (AtQuote("'", p) /\ Closing("'", p + 1) = p + 1) =>
              Raises("EmptyCharacterLiteral")]_vars

\* C16: a character literal with more than one character between its
\* quotes raises CharacterLiteralOneCodePoint and yields no Character token.
C16_CharLiteralTooLong ==
    [][LET p == NextLexeme(lexer.pos + 1)
       IN  (AtQuote("'", p) /\ Closing("'", p + 1) > p + 2) =>
              Raises("CharacterLiteralOneCodePoint")]_vars

\* C17: when the input ends before a closing single quote, lex raises
\* UnterminatedCharacterLiteral, whether or not characters follow the
\* opening quote.
C17_UnterminatedCharLiteral ==
    [][LET p == NextLexeme(lexer.pos + 1)
       IN  (AtQuote("'", p) /\ Closing("'", p + 1) = 0) =>
              Raises("UnterminatedCharacterLiteral")]_vars

\* C18: after an opening double quote, when a closing double quote comes
\* before the end of input lex emits one Literal(String) token whose span
\* covers both quotes and consumes the closing quote; when the input ends
\* first it emits no token and raises UnterminatedStringLiteral whose span
\* is the consumed region, opening quote and content.
C18_StringLiteral ==
    [][LET p == NextLexeme(lexer.pos + 1)
           q == Closing("\"", p + 1)
       IN  AtQuote("\"", p) =>
              IF q # 0
              THEN Emits(LiteralOf("String"), p, q - p + 1)
              ELSE /\ Raises("UnterminatedStringLiteral")
                   /\ Covers(diagnostics'[Len(diagnostics')].span, p,
                             Len(source) - p + 1)
                   /\ lexer'.pos = Len(source)]_vars

\* a string of two characters, one of them of two bytes, has been lexed
C18_Witness ==
    /\ lexResult.tag = "Ok"
    /\ Len(tokens) = 2
    /\ tokens[1].kind = LiteralOf("String")
    /\ Covers(tokens[1].span, 1, 4)
    /\ "U+00E9" \in {source[i] : i \in 1..Len(source)}

\* a string without its closing quote has been lexed after another string
C18_WitnessUnterminated ==
    /\ lexResult.tag = "Err"
    /\ Len(tokens) = 2
    /\ tokens[1].kind = LiteralOf("String")
    /\ diagnostics[1].diag = "UnterminatedStringLiteral"
    /\ diagnostics[1].span.end - diagnostics[1].span.start = 2

RECURSIVE RunEnd(_, _)
\* the index of the last character of the run of characters of `set` that
\* follows index p, p itself when the run is empty
RunEnd(p, set) ==
    IF p < Len(source) /\ source[p + 1] \in set THEN RunEnd(p + 1, set) ELSE p

\* the digits of each base; an underscore does not end a run of them
BinaryDigits == {"0", "1"}
OctalDigits == {"0", "1", "2", "7"}
HexDigits == {"0", "1", "2", "7", "8", "9", "a", "b", "c", "d", "e", "f", "F"}
DecimalDigits == {"0", "1", "2", "7", "8", "9"}

\* lex_token is about to lex the number at index p
AtNumber(p) == mainPc = "lex" /\ CharAt(p) \in DecimalDigits

\* the number at index p has a base prefix
HasBasePrefix(p) == CharAt(p) = "0" /\ CharAt(p + 1) \in {"b", "o", "x"}

\* C19: a literal whose first digit is 0 immediately followed by b, o or x
\* is one Integer token of base Binary, Octal or Hexadecimal that covers
\* the prefix and the whole run of digits of that base after it; a run of
\* digits without such a prefix and without a '.' after it is one
\* Integer{Decimal} token.
C19_BaseDetection ==
    [][LET p == NextLexeme(lexer.pos + 1)
       IN  AtNumber(p) =>
              CASE HasBasePrefix(p) /\ CharAt(p + 1) = "b" ->
                      Emits(LiteralInteger("Binary"), p,
                            RunEnd(p + 1, BinaryDigits \cup {"_"}) - p + 1)
                [] HasBasePrefix(p) /\ CharAt(p + 1) = "o" ->
                      Emits(LiteralInteger("Octal"), p,
                            RunEnd(p + 1, OctalDigits \cup {"_"}) - p + 1)
                [] HasBasePrefix(p) /\ CharAt(p + 1) = "x" ->
                      Emits(LiteralInteger("Hexadecimal"), p,
                            RunEnd(p + 1, HexDigits \cup {"_"}) - p + 1)
                [] OTHER ->
                      CharAt(RunEnd(p, DecimalDigits) + 1) # "." =>
                          Emits(LiteralInteger("Decimal"), p,
                                RunEnd(p, DecimalDigits) - p + 1)]_vars

\* '0x8b' has been lexed to one hexadecimal Integer
C19_Witness ==
    /\ lexResult.tag = "Ok"
    /\ source = <<"0", "x", "8", "b">>
    /\ Len(tokens) = 2
    /\ tokens[1].kind = LiteralInteger("Hexadecimal")

\* '0b18' has been lexed to a binary Integer and a decimal Integer
C19_WitnessSplit ==
    /\ lexResult.tag = "Ok"
    /\ Len(tokens) = 3
    /\ tokens[1].kind = LiteralInteger("Binary")
    /\ tokens[2].kind = LiteralInteger("Decimal")
    /\ Covers(tokens[2].span, 4, 1)

\* C20: a run of decimal digits followed by '.' is a Float only when a
\* decimal digit follows the '.'; otherwise the '.' is left unread, the run
\* is one Integer{Decimal} token, and the '.' is lexed as a Period.
C20_FloatNeedsFraction ==
    [][LET p == NextLexeme(lexer.pos + 1)
           e == RunEnd(p, DecimalDigits)
       IN  (AtNumber(p) /\ ~HasBasePrefix(p) /\ CharAt(e + 1) = ".") =>
              IF CharAt(e + 2) \in DecimalDigits
              THEN Emits(LiteralOf("Float"), p,
                         RunEnd(e + 1, DecimalDigits) - p + 1)
              ELSE Emits(LiteralInteger("Decimal"), p, e - p + 1)]_vars

\* the digits of the number at index p, by its prefix
DigitsAt(p) ==
    CASE HasBasePrefix(p) /\ CharAt(p + 1) = "b" -> BinaryDigits
      [] HasBasePrefix(p) /\ CharAt(p + 1) = "o" -> OctalDigits
      [] HasBasePrefix(p) /\ CharAt(p + 1) = "x" -> HexDigits
      [] OTHER -> DecimalDigits

\* the index where the digit run of the number at index p starts, less one
BeforeDigits(p) == IF HasBasePrefix(p) THEN p + 1 ELSE p - 1

\* C21: an underscore inside the digit run of a numeric literal does not
\* end the literal, whatever the base, the unprefixed decimal literal
\* included: when digits and underscores follow one another and a digit
\* comes last, one numeric token covers them all.
C21_UnderscoresInDigitRuns ==
    [][LET p == NextLexeme(lexer.pos + 1)
           e == RunEnd(BeforeDigits(p), DigitsAt(p) \cup {"_"})
       IN  (AtNumber(p) /\ e > p /\ CharAt(e) \in DigitsAt(p)) =>
              /\ mainPc' # "panicked"
              /\ Len(tokens') = Len(tokens) + 1
              /\ tokens'[Len(tokens')].kind.tag = "Literal"
              /\ tokens'[Len(tokens')].span.start = p
              /\ lexer'.pos >= e]_vars

\* the tokens of a successful lex without the EoF at their end
Lexed == SubSeq(lexResult.value, 1, Len(lexResult.value) - 1)

\* C22: token spans are exact: in a successful lex the span of every token
\* but EoF is {start: i + 1, end: j + 1} for the characters [i, j) that the
\* token consumed, identifiers with multi-byte characters included: every
\* span lies in the source, begins and ends on a character of its lexeme,
\* the spans of consecutive tokens increase without overlap, and no
\* character but whitespace is left outside the spans.
C22_SpansExact ==
    lexResult.tag = "Ok" =>
        /\ \A i \in 1..Len(Lexed) :
              /\ 1 <= Lexed[i].span.start
              /\ Lexed[i].span.start < Lexed[i].span.end
              /\ Lexed[i].span.end <= Len(source) + 1
              /\ ~IsWhitespace(source[Lexed[i].span.start])
              /\ ~IsWhitespace(source[Lexed[i].span.end - 1])
        /\ \A i \in 1..(Len(Lexed) - 1) :
              Lexed[i].span.end <= Lexed[i + 1].span.start
        /\ \A k \in 1..Len(source) :
              IsWhitespace(source[k]) \/
                 \E i \in 1..Len(Lexed) :
                    Lexed[i].span.start <= k /\ k < Lexed[i].span.end

\* the last token of a successful lex
LastToken == lexResult.value[Len(lexResult.value)]

\* the end offset of a token that covers the last character of the source
EndOfInput == Len(source) + 1

\* C23 as claimed: in a successful lex the span of EoF is zero-length and
\* both its offsets are the offset right after the last character of the
\* source, the end offset of a token that covers that character.
C23_EoFSpanAtEnd ==
    lexResult.tag = "Ok" =>
        /\ LastToken.kind = EoF
        /\ LastToken.span = [start |-> EndOfInput, end |-> EndOfInput]

\* C23 amended: in a successful lex the span of EoF is zero-length and both
\* its offsets are one more than the end offset of a token that covers the
\* last character of the source: n + 2 for a source of n characters.
C23_EoFSpanPastEnd ==
    lexResult.tag = "Ok" =>
        /\ LastToken.kind = EoF
        /\ LastToken.span = [start |-> EndOfInput + 1, end |-> EndOfInput + 1]

\* a source whose last character belongs to a token has been lexed
C23_Witness ==
    /\ lexResult.tag = "Ok"
    /\ Len(lexResult.value) >= 3
    /\ lexResult.value[Len(lexResult.value) - 1].span.end = EndOfInput
    /\ LastToken.span.start = EndOfInput + 1

\* a source that ends in whitespace has been lexed
C23_WitnessBlank ==
    /\ lexResult.tag = "Ok"
    /\ Len(source) >= 2
    /\ IsWhitespace(source[Len(source)])
    /\ LastToken.kind = EoF

\* the characters that are not punctuation, an operator, a quote, an
\* identifier start, numeric or whitespace
Unexpected ==
    {ch \in Chars :
        /\ ch \notin Punctuation \cup Operators \cup Quotes
        /\ ~IsXidStart(ch) /\ ch # "_"
        /\ ~IsNumeric(ch)
        /\ ~IsWhitespace(ch)}

\* the characters of text that are in set, in their order
Only(text, set) ==
    LET Keep(ch) == ch \in set
    IN  SelectSeq(text, Keep)

\* C24: a character of none of the classes raises UnexpectedCharacter with
\* that character and a span of length 1, consumes that one character and
\* nothing else, and scanning goes on at the next character: k such
\* characters give k UnexpectedCharacter diagnostics in source order.
C24_UnexpectedCharacter ==
    /\ [][LET p == NextLexeme(lexer.pos + 1)
           IN  (mainPc = "lex" /\ CharAt(p) \in Unexpected) =>
                  /\ Raises("UnexpectedCharacter")
                  /\ diagnostics'[Len(diagnostics')].ch = CharAt(p)
                  /\ diagnostics'[Len(diagnostics')].span.end
                        - diagnostics'[Len(diagnostics')].span.start = 1
                  /\ lexer'.pos = p]_vars
    /\ [](LexReturned =>
            /\ [i \in 1..Len(diagnostics) |-> diagnostics[i].ch]
                  = Only(source, Unexpected)
            /\ \A i \in 1..Len(diagnostics) :
                  diagnostics[i].diag = "UnexpectedCharacter"
            /\ (lexResult.tag = "Err") <=> (Only(source, Unexpected) # <<>>))

\* '@1#' has been lexed: two different characters of no class around a token
C24_Witness ==
    /\ lexResult.tag = "Err"
    /\ Len(lexResult.value) = 2
    /\ lexResult.value[1].ch = "@"
    /\ lexResult.value[2].ch = "#"
    /\ Len(tokens) = 2

-----------------------------------------------------------------------------
(* Properties of spans *)

\* the least and the greatest of two numbers
Least(a, b) == CHOOSE x \in {a, b} : \A y \in {a, b} : x <= y
Greatest(a, b) == CHOOSE x \in {a, b} : \A y \in {a, b} : x >= y

\* span `outer` contains span `inner`
Contains(outer, inner) == outer.start <= inner.start /\ inner.end <= outer.end

Coalesced == mainPc = "coalesced" /\ coalescing.done

\* C25: for spans a and b with start <= end, coalesce_adjacent(a, b) is
\* {start: min(a.start, b.start), end: max(a.end, b.end)} whether the two
\* are disjoint, adjacent, overlapping or nested; so it is commutative,
\* coalesce(a, a) = a, and the result has start <= end and contains both.
C25_Coalesce ==
    Coalesced =>
        LET a == coalescing.self
            b == coalescing.other
            r == coalescing.result
        IN  /\ r = [start |-> Least(a.start, b.start), end |-> Greatest(a.end, b.end)]
            /\ r = CoalesceAdjacent(b, a)
            /\ a = b => r = a
            /\ r.start <= r.end
            /\ Contains(r, a) /\ Contains(r, b)

\* two disjoint spans, the later one first, have been coalesced
C25_Witness ==
    /\ Coalesced
    /\ coalescing.other.end < coalescing.self.start
    /\ coalescing.other.start < coalescing.other.end
    /\ coalescing.result = [start |-> coalescing.other.start,
                            end |-> coalescing.self.end]

\* a span and a span nested in it have been coalesced
C25_WitnessNested ==
    /\ Coalesced
    /\ coalescing.self.start < coalescing.other.start
    /\ coalescing.other.end < coalescing.self.end
    /\ coalescing.result = coalescing.self

-----------------------------------------------------------------------------
(* Whitespace *)

\* the number of characters of the first line of a source of two lines, the
\* second one character longer than the first
FirstLine == (Len(source) - 2) \div 2

\* the kinds of the tokens but EoF whose spans lie in the offsets from..to
KindsWithin(from, to) ==
    LET Within(token) ==
            /\ token.kind # EoF
            /\ from <= token.span.start
            /\ token.span.end <= to
        chosen == SelectSeq(tokens, Within)
    IN  [i \in 1..Len(chosen) |-> chosen[i].kind]

\* the offset that follows the first k characters of the first line lies
\* between two consecutive tokens of that line
BetweenTokens(k) ==
    \E i \in 1..(Len(tokens) - 1) :
        /\ tokens[i].span.end <= k + 1
        /\ k + 1 <= tokens[i + 1].span.start
        /\ tokens[i + 1].kind # EoF
        /\ tokens[i + 1].span.end <= FirstLine + 1

\* the source is a text, a line feed, and the text with a space after its
\* first k characters
SpaceInsertedAt(k) ==
    /\ k <= FirstLine
    /\ source = SubSeq(source, 1, FirstLine) \o <<"\n">>
                    \o Inserted(SubSeq(source, 1, FirstLine), k)

\* C26: whitespace produces no token and no diagnostic: every call of
\* lex_token skips the whitespace before the lexeme it scans, no token
\* begins at a whitespace character and no diagnostic names one; and a space
\* inserted between two adjacent tokens of a text leaves the sequence of the
\* token kinds of the text unchanged.
C26_WhitespaceSkipped ==
    /\ [][(mainPc = "lex" /\ mainPc' # "panicked" /\ lexer' # lexer) =>
              /\ lexer'.pos >= NextLexeme(lexer.pos + 1) - 1
              /\ (Len(tokens') > Len(tokens) /\ tokens'[Len(tokens')].kind # EoF) =>
                    tokens'[Len(tokens')].span.start = NextLexeme(lexer.pos + 1)
              /\ Len(diagnostics') > Len(diagnostics) =>
                    diagnostics'[Len(diagnostics')].ch
                        = CharAt(NextLexeme(lexer.pos + 1))]_vars
    /\ [](LexReturned =>
            /\ \A i \in 1..Len(tokens) :
                  tokens[i].kind # EoF => source[tokens[i].span.start] \notin Blank
            /\ \A i \in 1..Len(diagnostics) : diagnostics[i].ch \notin Blank
            /\ Len(tokens) + Len(diagnostics)
                  <= Len(Only(source, Chars \ Blank)) + 1
            /\ \A k \in 0..FirstLine :
                  (SpaceInsertedAt(k) /\ BetweenTokens(k)) =>
                      KindsWithin(1, FirstLine + 1)
                          = KindsWithin(FirstLine + 2, Len(source) + 1))

\* '1a' and '1 a' have been lexed: the same two kinds on either line
C26_Witness ==
    /\ LexReturned
    /\ SpaceInsertedAt(1)
    /\ BetweenTokens(1)
    /\ Len(KindsWithin(1, FirstLine + 1)) = 2
    /\ KindsWithin(1, FirstLine + 1) = KindsWithin(FirstLine + 2, Len(source) + 1)
    /\ Len(tokens) = 5

\* a space has been inserted between two tokens that had whitespace
\* between them already
C26_WitnessExtra ==
    /\ LexReturned
    /\ \E k \in 1..FirstLine :
          /\ SpaceInsertedAt(k)
          /\ BetweenTokens(k)
          /\ source[k] \in Blank
    /\ Len(tokens) = 5

-----------------------------------------------------------------------------
(* The end of the token stream *)

\* C27: the parser never consumes the EoF token: in every state of a parse
\* over the tokens of a successful lex the EoF token is still in the stream
\* that remains, and once EoF is the lookahead it stays the lookahead.
C27_EoFNeverConsumed ==
    /\ [][(mainPc = "parse" /\ PAtEnd(ptokens)) => PAtEnd(ptokens')]_vars
    /\ [](mainPc \in {"parse", "parsed"} =>
            /\ ptokens # <<>>
            /\ ptokens[Len(ptokens)].kind = EoF)

-----------------------------------------------------------------------------
(* The operators of the grammar *)

\* the spellings of one character of the binary operators of the grammar
SingleOf(ch) ==
    CASE ch = "<" -> Kind("Lt")
      [] ch = ">" -> Kind("Gt")
      [] ch = "+" -> Kind("Plus")
      [] ch = "-" -> Kind("Minus")
      [] ch = "*" -> Kind("Star")
      [] ch = "/" -> Kind("Slash")

\* the spellings of two characters, the second '=', of the binary operators
\* of the grammar
WithEqualOf(ch) ==
    CASE ch = "<" -> Kind("LtEqual")
      [] ch = ">" -> Kind("GtEqual")
      [] ch = "=" -> Kind("EqualEqual")
      [] ch = "!" -> Kind("BangEqual")

\* C28: every operator kind that the grammar of the parser accepts is lexed
\* from its spelling as one token: '<=' '>=' '==' '!=' give LtEqual,
\* GtEqual, EqualEqual, BangEqual of length 2, and '<' '>' '+' '-' '*' '/'
\* before a character other than '=' give Lt, Gt, Plus, Minus, Star, Slash
\* of length 1; so '1 <= 1' is parsed to Binary with operator LtEqual.
C28_GrammarOperatorsLexed ==
    /\ [][LET p == NextLexeme(lexer.pos + 1)
           IN  /\ (mainPc = "lex" /\ CharAt(p) \in {"<", ">", "=", "!"}
                      /\ CharAt(p + 1) = "=") =>
                      Emits(WithEqualOf(CharAt(p)), p, 2)
               /\ (mainPc = "lex" /\ CharAt(p) \in {"<", ">", "+", "-", "*", "/"}
                      /\ CharAt(p + 1) # "=") =>
                      Emits(SingleOf(CharAt(p)), p, 1)]_vars
    /\ []((LexReturned /\ Only(source, Chars \ Blank) = <<"1", "<", "=", "1">>
             /\ \E i \in 1..(Len(source) - 1) :
                   source[i] = "<" /\ source[i + 1] = "=") =>
            /\ lexResult.tag = "Ok"
            /\ (nodes # <<>> \/ pdiagnostics # <<>>) =>
                  ParsedTo(Binary(Literal("Integer"), "LtEqual", Literal("Integer"))))

-----------------------------------------------------------------------------
(* The spans of the diagnostics *)

\* C29: lex diagnostics use the offsets of the tokens: UnexpectedCharacter
\* for the character at 0-based index i has the span {i + 1, i + 2} that a
\* token of one character at that index has, and the span of every
\* diagnostic of a lex call lies within the offsets that the token spans of
\* the same source take, from 1 to the offset of EoF.
C29_DiagnosticOffsets ==
    /\ [][LET p == NextLexeme(lexer.pos + 1)
           IN  (mainPc = "lex" /\ CharAt(p) \in Unexpected) =>
                  /\ Raises("UnexpectedCharacter")
                  /\ Covers(diagnostics'[Len(diagnostics')].span, p, 1)]_vars
    /\ [](LexReturned =>
            \A i \in 1..Len(diagnostics) :
                /\ 1 <= diagnostics[i].span.start
                /\ diagnostics[i].span.start <= diagnostics[i].span.end
                /\ diagnostics[i].span.end <= tokens[Len(tokens)].span.end)

-----------------------------------------------------------------------------
(* Integer literals with a base *)

\* the digits of the base of an integer literal
DigitsOfBase(base) ==
    CASE base = "Binary" -> BinaryDigits
      [] base = "Octal" -> OctalDigits
      [] base = "Hexadecimal" -> HexDigits

\* C30: every Integer token of base Binary, Octal or Hexadecimal in the
\* result of a successful lex has at least one digit of its base after its
\* prefix of two characters: a bare '0x', '0b' or '0o' is not returned as
\* an integer literal.
C30_BasePrefixHasDigits ==
    lexResult.tag = "Ok" =>
        \A i \in 1..Len(lexResult.value) :
            LET token == lexResult.value[i]
            IN  (token.kind.tag = "Literal" /\ token.kind.sub = "Integer"
                   /\ token.kind.arg \in {"Binary", "Octal", "Hexadecimal"}) =>
                   \E k \in (token.span.start + 2)..(token.span.end - 1) :
                       source[k] \in DigitsOfBase(token.kind.arg)

====
